---- MODULE Spec2Model ----
(***************************************************************************)
(* Loan-origination and credit-scoring backend.                            *)
(*                                                                         *)
(* The loan store, POST /loans (applyLoan), the repayment-schedule         *)
(* generator of the Loan model and the two GET /loans/credit-report        *)
(* handlers (the weighted-factor scoring and its older additive variant),  *)
(* the authenticate middleware in front of the routes, a credit report     *)
(* racing with applications, the server's database connection loop, and    *)
(* the signup and login handlers that issue the tokens.                    *)
(*                                                                         *)
(* Numbers that are fractions in the program (ratios, factor values, the   *)
(* weighted score before rounding) are exact rationals [n, d] here: the    *)
(* model abstracts IEEE-754 rounding error of the JavaScript doubles.      *)
(* Interest rates are kept in tenths of a percent (85 stands for 8.5).     *)
(***************************************************************************)
EXTENDS Integers, Sequences, FiniteSets, TLC

VARIABLES
  store,      \* the Loan collection: sequence of persisted loan documents
  now,        \* the clock: today's calendar date [y, m, d]
  found,      \* the array the last Loan.find(...).lean() returned
  response,   \* the last HTTP response produced by a handler
  built,      \* the last POST /loans: its request and the document it built
  users,      \* the User collection: the ids of its documents
  staff,      \* the Staff collection: the ids of its documents
  request,    \* the last request as the authenticate middleware left it
  inflight,   \* the credit-report request that is in flight
  reachable,  \* whether the database answers a connection attempt
  conn,       \* the connection loop of the server
  userDocs,   \* the documents of the User collection
  staffDocs,  \* the documents of the Staff collection
  signups     \* the signup requests between their findOne and their save

loanVars == <<store, now, found, response, built>>
authVars == <<users, staff, request>>
connVars == <<reachable, conn>>
acctVars == <<userDocs, staffDocs, signups>>

vars ==
  <<store, now, found, response, built, users, staff, request, inflight,
    reachable, conn, userDocs, staffDocs, signups>>

----------------------------------------------------------------------------
(* Bounds of the model *)

MaxLoans == 2       \* loans in one Loan.find result of the scoring runs
MaxStore == 2       \* loans persisted in the store

----------------------------------------------------------------------------
(* Optional values: <<>> is undefined, <<v>> is the value v *)

Undefined == <<>>
Some(v) == <<v>>
IsDefined(x) == x /= <<>>
OrZero(x) == IF x = <<>> THEN 0 ELSE x[1]          \* x || 0
OrEmpty(x) == IF x = <<>> THEN <<>> ELSE x[1]      \* x || []

----------------------------------------------------------------------------
(* Exact rationals *)

RECURSIVE GCD(_, _)
GCD(a, b) == IF b = 0 THEN a ELSE GCD(b, a % b)

Abs(x) == IF x < 0 THEN -x ELSE x

Rat(n, d) ==
  LET g == GCD(Abs(n), Abs(d))
      s == IF d < 0 THEN -1 ELSE 1
  IN  [n |-> s * (n \div g), d |-> s * (d \div g)]

RInt(k) == [n |-> k, d |-> 1]
RAdd(a, b) == Rat(a.n * b.d + b.n * a.d, a.d * b.d)
RSub(a, b) == Rat(a.n * b.d - b.n * a.d, a.d * b.d)
RMul(a, b) == Rat(a.n * b.n, a.d * b.d)
RDiv(a, b) == Rat(a.n * b.d, a.d * b.n)
RLess(a, b) == a.n * b.d < b.n * a.d
RMin(a, b) == IF RLess(b, a) THEN b ELSE a

\* Math.round: the nearest integer, ties towards +infinity = floor(x + 1/2)
MathRound(r) == (2 * r.n + r.d) \div (2 * r.d)

MathMin(a, b) == IF b < a THEN b ELSE a
MathMax(a, b) == IF b > a THEN b ELSE a

\* Array.prototype.reduce((sum, x) => f(sum, x), init)
RECURSIVE Reduce(_, _, _)
Reduce(f(_, _), arr, init) ==
  IF arr = <<>> THEN init
  ELSE Reduce(f, Tail(arr), f(init, Head(arr)))

\* Array.prototype.filter(p).length
RECURSIVE CountIf(_, _)
CountIf(p(_), arr) ==
  IF arr = <<>> THEN 0
  ELSE (IF p(Head(arr)) THEN 1 ELSE 0) + CountIf(p, Tail(arr))

\* new Set(arr.map(f)).size
DistinctCount(f(_), arr) == Cardinality({f(arr[i]) : i \in 1..Len(arr)})

----------------------------------------------------------------------------
(* Calendar dates, as JavaScript's Date sees them (time of day left out) *)

IsLeap(y) == (y % 4 = 0 /\ y % 100 /= 0) \/ y % 400 = 0

DaysInMonth(y, m) ==
  IF m = 2 THEN (IF IsLeap(y) THEN 29 ELSE 28)
  ELSE IF m \in {4, 6, 9, 11} THEN 30 ELSE 31

Date(y, m, d) == [y |-> y, m |-> m, d |-> d]

\* months since year 0: the calendar month a date lies in
MonthIndex(date) == date.y * 12 + (date.m - 1)

DateLess(a, b) ==
  \/ a.y < b.y
  \/ a.y = b.y /\ a.m < b.m
  \/ a.y = b.y /\ a.m = b.m /\ a.d < b.d

\* dueDate.setMonth(dueDate.getMonth() + i): the month field is advanced and
\* the day of the month kept; a day the target month does not have runs
\* over into the following month (MakeDay/MakeDate normalisation).
SetMonthPlus(date, i) ==
  LET total == MonthIndex(date) + i
      y1 == total \div 12
      m1 == (total % 12) + 1
      dim == DaysInMonth(y1, m1)
  IN  IF date.d <= dim THEN Date(y1, m1, date.d)
      ELSE Date((total + 1) \div 12, ((total + 1) % 12) + 1, date.d - dim)

----------------------------------------------------------------------------
(* The Loan model *)

MinLoanAmount == 1000
MaxLoanAmount == 1000000
MinLoanTerm == 1
MaxLoanTerm == 60
MinInterestRate == 10        \* 1 %, in tenths of a percent
MaxInterestRate == 250       \* 25 %
DefaultInterestRate == 85    \* 8.5 %
PremiumInterestRate == 65    \* 6.5 %

LoanPurposes ==
  {"Home", "Car", "Education", "Business", "Personal", "Medical",
   "Debt Consolidation"}
LoanStatuses ==
  {"Pending", "Approved", "Rejected", "Active", "Completed", "Defaulted"}
EmploymentStatuses ==
  {"employed", "self-employed", "student", "retired", "unemployed"}

\* String.prototype.includes on the lender names the model draws
Includes(name, word) ==
  \/ word = "Premium" /\ name \in {"Premium Bank", "Premium Standard Bank"}
  \/ word = "Standard"
       /\ name \in {"Standard Lesotho", "Premium Standard Bank"}

\* virtual totalRepayment / monthlyPayment: the annuity payment
\* P * r(1+r)^n / ((1+r)^n - 1), r = rate/100/12.  The value is kept as the
\* term of its three arguments (it is strictly increasing in each of P and
\* rate, so two payments over the same term are equal exactly when their
\* arguments are); with r = 0 the quotient is 0/0 = NaN.
AnnuityPayment(principal, rate, term) ==
  [nan |-> (rate = 0), principal |-> principal, rate |-> rate, term |-> term]

monthlyPayment(loan) ==
  AnnuityPayment(loan.loanAmount, loan.interestRate, loan.loanTerm)

\* virtual totalRepayment: payment * this.loanTerm
totalRepayment(loan) ==
  [nan |-> monthlyPayment(loan).nan, payment |-> monthlyPayment(loan),
   times |-> loan.loanTerm]

\* the number 0 where a payment is expected (x || 0)
ZeroAmount == [nan |-> FALSE, principal |-> 0, rate |-> 0, term |-> 0]
OrZeroAmount(x) == IF x = <<>> THEN ZeroAmount ELSE x[1]

\* the loop run with i < loanTerm: the last installment is left out
generateScheduleShort(loan, startDate) ==
  [i \in 1..(loan.loanTerm - 1) |->
     [dueDate |-> SetMonthPlus(startDate, i),
      amount  |-> monthlyPayment(loan),
      status  |-> "Pending"]]

\* LoanSchema.methods.generateRepaymentSchedule, with startDate = new Date()
generateRepaymentSchedule(loan, startDate) ==
  [i \in 1..loan.loanTerm |->
     [dueDate |-> SetMonthPlus(startDate, i),
      amount  |-> monthlyPayment(loan),
      status  |-> "Pending"]]

\* the hook with the Standard tier tested first
PreSaveStandardFirst(loan) ==
  IF Includes(loan.lenderName, "Standard")
    THEN [loan EXCEPT !.interestRate = DefaultInterestRate]
  ELSE IF Includes(loan.lenderName, "Premium")
    THEN [loan EXCEPT !.interestRate = PremiumInterestRate]
  ELSE loan

\* LoanSchema.pre('save'): the lender-tier rate
PreSave(loan) ==
  IF Includes(loan.lenderName, "Premium")
    THEN [loan EXCEPT !.interestRate = PremiumInterestRate]
  ELSE IF Includes(loan.lenderName, "Standard")
    THEN [loan EXCEPT !.interestRate = DefaultInterestRate]
  ELSE loan

\* the schema's validators run by save()
SchemaValid(loan) ==
  /\ loan.loanAmount >= MinLoanAmount /\ loan.loanAmount <= MaxLoanAmount
  /\ loan.loanPurpose \in LoanPurposes
  /\ loan.loanTerm >= MinLoanTerm /\ loan.loanTerm <= MaxLoanTerm
  /\ loan.interestRate >= MinInterestRate
  /\ loan.interestRate <= MaxInterestRate
  /\ loan.employmentStatus \in EmploymentStatuses
  /\ loan.status \in LoanStatuses
  /\ \A i \in 1..Len(loan.repaymentSchedule) :
       ~loan.repaymentSchedule[i].amount.nan

----------------------------------------------------------------------------
(* GET /loans/credit-report: the weighted-factor scoring (first handler) *)

baseScore == 300
maxScore == 850

\* a paymentHistory entry is an object {status: s}
\* ([shape |-> "object", status |-> s]) or a bare string s
\* ([shape |-> "string", status |-> s])
IsPaidObject(p) == p.shape = "object" /\ p.status = "paid"  \* p.status === 'paid'
IsPaidString(p) == p.shape = "string" /\ p.status = "paid"  \* p === 'paid'

\* (paid || 1) / (total || 1): an empty history counted as fully paid
HistoryRatioPaidOrOne(loan) ==
  LET history == OrEmpty(loan.paymentHistory)
      paid == CountIf(IsPaidObject, history)
  IN  IF Len(history) = 0 THEN RInt(1) ELSE Rat(paid, Len(history))

\* the ratio of the entries that are not paid
HistoryRatioUnpaid(loan) ==
  LET history == OrEmpty(loan.paymentHistory)
      paid == CountIf(IsPaidObject, history)
      total == IF Len(history) = 0 THEN 1 ELSE Len(history)
  IN  Rat(Len(history) - paid, total)

\* paid / total of one loan, total = (loan.paymentHistory || []).length || 1
HistoryRatio1(loan) ==
  LET history == OrEmpty(loan.paymentHistory)
      paid == CountIf(IsPaidObject, history)
      total == IF Len(history) = 0 THEN 1 ELSE Len(history)
  IN  Rat(paid, total)

\* a mean kept as a running average, (sum + ratio) / 2 at every loan
paymentHistoryRunningMean(loans) ==
  Reduce(LAMBDA sum, loan : RDiv(RAdd(sum, HistoryRatio1(loan)), RInt(2)),
         loans, RInt(0))

paymentHistoryValue1(loans) ==
  RDiv(Reduce(LAMBDA sum, loan : RAdd(sum, HistoryRatio1(loan)),
              loans, RInt(0)),
       RInt(Len(loans)))

TotalDebt(loans) ==
  Reduce(LAMBDA sum, loan :
           IF loan.status = "Active" THEN sum + loan.loanAmount ELSE sum,
         loans, 0)

TotalCredit(loans) ==
  Reduce(LAMBDA sum, loan :
           IF loan.status = "Active" /\ loan.loanType = Some("Credit")
             THEN sum + OrZero(loan.creditLimit) ELSE sum,
         loans, 0)

\* 1 - Math.min(utilization, 1)
creditUtilizationValue(loans) ==
  LET totalDebt == TotalDebt(loans)
      totalCredit == TotalCredit(loans)
      utilization == IF totalCredit > 0 THEN Rat(totalDebt, totalCredit)
                     ELSE RInt(0)
  IN  RSub(RInt(1), RMin(utilization, RInt(1)))

creditMixValue(loans) ==
  Rat(DistinctCount(LAMBDA loan : loan.loanPurpose, loans), 5)

\* statusWeights[loan.status] || 0
StatusWeight(status) ==
  CASE status = "Paid" -> 5
    [] status = "Active" -> 3
    [] status = "Defaulted" -> -10
    [] status = "Pending" -> 1
    [] OTHER -> 0

accountStatusValue(loans) ==
  Rat(Reduce(LAMBDA sum, loan : sum + StatusWeight(loan.status), loans, 0),
      Len(loans))

\* Object.values(scoreFactors), in insertion order, as <<value, weight>>
ScoreFactors(loans) ==
  << <<paymentHistoryValue1(loans), Rat(4, 10)>>,
     <<creditUtilizationValue(loans), Rat(2, 10)>>,
     <<creditMixValue(loans), Rat(1, 10)>>,
     <<accountStatusValue(loans), Rat(3, 10)>> >>

WeightedScore(loans) ==
  Reduce(LAMBDA sum, factor :
           RAdd(sum, RMul(RMul(factor[1], factor[2]),
                          RInt(maxScore - baseScore))),
         ScoreFactors(loans), RInt(0))

\* a clamp that forgets the upper end
ClampLowOnly(x) == MathMax(x, 300)

\* Math.min(Math.max(Math.round(baseScore + weightedScore), 300), 850)
Clamp(x) == MathMin(MathMax(x, 300), 850)

\* baseScore + weightedScore, before rounding
RawScore1(loans) == RAdd(RInt(baseScore), WeightedScore(loans))

calculateCreditScore1(loans) == Clamp(MathRound(RawScore1(loans)))

\* the bands with > in place of >=
scoreRangeStrict(creditScore) ==
  IF creditScore > 720 THEN "Excellent"
  ELSE IF creditScore > 650 THEN "Good"
  ELSE IF creditScore > 580 THEN "Fair"
  ELSE "Poor"

scoreRange(creditScore) ==
  IF creditScore >= 720 THEN "Excellent"
  ELSE IF creditScore >= 650 THEN "Good"
  ELSE IF creditScore >= 580 THEN "Fair"
  ELSE "Poor"

availableCredit1(loans) ==
  Reduce(LAMBDA sum, loan :
           IF loan.status = "Active" /\ loan.loanType = Some("Credit")
             THEN sum + MathMax(0, OrZero(loan.creditLimit) - loan.loanAmount)
             ELSE sum,
         loans, 0)

\* `${Math.round((totalDebt / (totalDebt + availableCredit)) * 100)}%`
Percent(totalDebt, availableCredit) ==
  ToString(MathRound(RMul(Rat(totalDebt, totalDebt + availableCredit),
                          RInt(100)))) \o "%"

creditUtilization1(loans) ==
  LET totalDebt == TotalDebt(loans) IN
  IF totalDebt > 0 THEN Percent(totalDebt, availableCredit1(loans))
  ELSE "0%"

\* repaymentSchedule?.find(p => p.status === 'Pending')?.dueDate, as an
\* optional value (<<>> where the handler prints 'N/A')
NextPendingDueDate(loan) ==
  LET pending == {i \in 1..Len(loan.repaymentSchedule) :
                    loan.repaymentSchedule[i].status = "Pending"}
  IN  IF pending = {} THEN Undefined
      ELSE Some(loan.repaymentSchedule[
                  CHOOSE i \in pending : \A j \in pending : i <= j].dueDate)

\* monthlyPayment is a virtual, not a stored path: .select() on a .lean()
\* query returns the stored fields only, so loan.monthlyPayment is undefined
LeanMonthlyPayment(loan) == Undefined

Account1(loan) ==
  [id |-> loan.id,
   name |-> loan.lenderName,
   type |-> loan.loanPurpose \o " Loan",
   status |-> loan.status,
   balance |-> loan.loanAmount,
   payment |-> OrZeroAmount(LeanMonthlyPayment(loan)),
   term |-> ToString(loan.loanTerm) \o " months",
   remainingTerm |-> ToString(OrZero(loan.remainingTerm)) \o " months",
   nextPaymentDate |-> NextPendingDueDate(loan),
   creditLimit |-> OrZero(loan.creditLimit),
   loanType |-> IF IsDefined(loan.loanType) THEN loan.loanType[1] ELSE "Term"]

\* a sentinel that reports the base score for a user without loans
SentinelBaseScore ==
  [creditScore |-> 300,
   scoreRange |-> "Poor",
   accounts |-> <<>>,
   creditUtilization |-> "0%",
   totalDebt |-> 0,
   availableCredit |-> 0,
   openAccounts |-> 0,
   scored |-> FALSE]

\* the response when the user has no loans
SentinelReport ==
  [creditScore |-> 0,
   scoreRange |-> "No Credit History",
   accounts |-> <<>>,
   creditUtilization |-> "0%",
   totalDebt |-> 0,
   availableCredit |-> 0,
   openAccounts |-> 0,
   scored |-> FALSE]

\* a report that reads the store again for the number of open accounts
CreditReportTwoReads(loans) ==
  IF Len(loans) = 0 THEN SentinelReport
  ELSE LET creditScore == calculateCreditScore1(loans) IN
       [creditScore |-> creditScore,
        scoreRange |-> scoreRange(creditScore),
        accounts |-> [i \in 1..Len(loans) |-> Account1(loans[i])],
        creditUtilization |-> creditUtilization1(loans),
        totalDebt |-> TotalDebt(loans),
        availableCredit |-> availableCredit1(loans),
        openAccounts |->
          Len(SelectSeq(store, LAMBDA loan : loan.user = loans[1].user)),
        scored |-> TRUE]

\* the handler after the read; scored records that calculateCreditScore ran
CreditReport1(loans) ==
  IF Len(loans) = 0 THEN SentinelReport
  ELSE LET creditScore == calculateCreditScore1(loans) IN
       [creditScore |-> creditScore,
        scoreRange |-> scoreRange(creditScore),
        accounts |-> [i \in 1..Len(loans) |-> Account1(loans[i])],
        creditUtilization |-> creditUtilization1(loans),
        totalDebt |-> TotalDebt(loans),
        availableCredit |-> availableCredit1(loans),
        openAccounts |-> Len(loans),
        scored |-> TRUE]

----------------------------------------------------------------------------
(* GET /loans/credit-report: the additive scoring (second handler) *)

HistoryRatio2(loan) ==
  LET history == OrEmpty(loan.paymentHistory)
      paid == CountIf(IsPaidString, history)
      total == IF Len(history) = 0 THEN 1 ELSE Len(history)
  IN  Rat(paid, total)

paymentHistoryScore2(loans) ==
  RMul(RDiv(Reduce(LAMBDA sum, loan : RAdd(sum, HistoryRatio2(loan)),
                   loans, RInt(0)),
            RInt(Len(loans))),
       RInt(400))

utilizationScore2(loans) == RMul(creditUtilizationValue(loans), RInt(200))

mixScore2(loans) == DistinctCount(LAMBDA loan : loan.loanPurpose, loans) * 10

statusScore2(loans) ==
  CountIf(LAMBDA loan : loan.status = "Paid", loans) * 5
  + CountIf(LAMBDA loan : loan.status = "Active", loans) * 3
  - CountIf(LAMBDA loan : loan.status = "Defaulted", loans) * 10

\* paymentHistoryScore + utilizationScore + mixScore + statusScore
RawScore2(loans) ==
  RAdd(RAdd(paymentHistoryScore2(loans), utilizationScore2(loans)),
       RInt(mixScore2(loans) + statusScore2(loans)))

calculateCreditScore2(loans) ==
  IF Len(loans) = 0 THEN 0 ELSE Clamp(MathRound(RawScore2(loans)))

availableCredit2(loans) ==
  Reduce(LAMBDA sum, loan :
           IF loan.status = "Active" /\ loan.loanType = Some("Credit")
             THEN sum + OrZero(loan.creditLimit) - loan.loanAmount
             ELSE sum,
         loans, 0)

creditUtilization2(loans) ==
  LET availableCredit == availableCredit2(loans) IN
  IF availableCredit > 0 THEN Percent(TotalDebt(loans), availableCredit)
  ELSE "0%"

\* nextPaymentDate, originalAmount and repaymentPlan are not stored paths
Account2(loan) ==
  [id |-> loan.id,
   name |-> loan.lenderName,
   type |-> loan.loanPurpose \o " Loan",
   status |-> loan.status,
   balance |-> loan.loanAmount,
   payment |-> OrZeroAmount(LeanMonthlyPayment(loan)),
   term |-> ToString(loan.loanTerm) \o " months",
   remainingTerm |-> IF OrZero(loan.remainingTerm) /= 0
                       THEN ToString(loan.remainingTerm[1]) \o " months"
                       ELSE "N/A",
   nextPaymentDate |-> Undefined,
   creditLimit |-> OrZero(loan.creditLimit),
   loanType |-> IF IsDefined(loan.loanType) THEN loan.loanType[1] ELSE "Term"]

CreditReport2(loans) ==
  IF Len(loans) = 0 THEN SentinelReport
  ELSE LET creditScore == calculateCreditScore2(loans) IN
       [creditScore |-> creditScore,
        scoreRange |-> scoreRange(creditScore),
        accounts |-> [i \in 1..Len(loans) |-> Account2(loans[i])],
        creditUtilization |-> creditUtilization2(loans),
        totalDebt |-> TotalDebt(loans),
        availableCredit |-> availableCredit2(loans),
        openAccounts |-> Len(loans),
        scored |-> TRUE]

----------------------------------------------------------------------------
(* Requests *)

Users == {"u1", "u2"}

\* the request bodies POST /loans is tried with
AmountInputs == {999, 1000}
PurposeInputs == {"Home", "Yacht"}
TermInputs == {0, 1, 3, 61}
\* a JSON body may carry the rate as a number (Some(n)) or as a numeric
\* string, which the schema casts to its number
NumericString(n) == <<n, "string">>
RateInputs == {Undefined, Some(50), Some(300), NumericString(0)}
LenderInputs ==
  {Undefined, Some("Premium Bank"), Some("Standard Lesotho"),
   Some("Premium Standard Bank")}
EmploymentInputs == {"employed", "Employed"}

\* truthiness of req.body.interestRate: a number other than 0, or a
\* non-empty string ("0" included)
Truthy(x) == Len(x) = 2 \/ (Len(x) = 1 /\ x[1] /= 0)

\* the schema-level failure of a body that passes the validator chain
RateOutOfRange(body) ==
  /\ Truthy(body.interestRate)
  /\ \/ body.interestRate[1] > MaxInterestRate
     \/ body.interestRate[1] < MinInterestRate

AllBodies ==
  [loanAmount : AmountInputs, loanPurpose : PurposeInputs,
   loanTerm : TermInputs, interestRate : RateInputs,
   lenderName : LenderInputs, employmentStatus : EmploymentInputs]

\* how many of a body's fields are invalid
Invalidity(body) ==
  (IF body.loanAmount < MinLoanAmount THEN 1 ELSE 0)
  + (IF body.loanPurpose \notin LoanPurposes THEN 1 ELSE 0)
  + (IF body.loanTerm < MinLoanTerm \/ body.loanTerm > MaxLoanTerm
       THEN 1 ELSE 0)
  + (IF body.employmentStatus \notin EmploymentStatuses THEN 1 ELSE 0)
  + (IF RateOutOfRange(body) THEN 1 ELSE 0)

\* the bodies tried: at most one invalid field; the one-month term only
\* with the default rate and lender; the rate "0" only without a lender,
\* the lender of both tiers only at 5 %, the Standard lender not at 5 %
Bodies ==
  {body \in AllBodies :
     /\ Invalidity(body) <= 1
     /\ body.loanTerm = 1 =>
          body.interestRate = Undefined /\ body.lenderName = Undefined
     /\ body.interestRate = NumericString(0) => body.lenderName = Undefined
     /\ body.lenderName = Some("Premium Standard Bank") =>
          body.interestRate = Some(50)
     /\ body.lenderName = Some("Standard Lesotho") =>
          body.interestRate /= Some(50)}

\* the applications tried: the second user sends default applications
\* only, and none for one month
Requests ==
  {req \in [user : Users, body : Bodies] :
     req.user = "u2" =>
       /\ req.body.interestRate = Undefined /\ req.body.lenderName = Undefined
       /\ req.body.loanTerm /= 1}

\* a validator chain without the check of the term
BodyValidNoTerm(body) ==
  /\ body.loanAmount >= MinLoanAmount
  /\ body.loanPurpose \in LoanPurposes
  /\ body.employmentStatus \in EmploymentStatuses

\* the express-validator chain of POST /loans
BodyValid(body) ==
  /\ body.loanAmount >= MinLoanAmount
  /\ body.loanPurpose \in LoanPurposes
  /\ body.loanTerm >= MinLoanTerm /\ body.loanTerm <= MaxLoanTerm
  /\ body.employmentStatus \in EmploymentStatuses

\* req.body.interestRate || (lenderName?.includes('Premium') ? 6.5 : 8.5)
RequestedRate(body) ==
  IF Truthy(body.interestRate) THEN body.interestRate[1]
  ELSE IF IsDefined(body.lenderName) /\ Includes(body.lenderName[1], "Premium")
    THEN PremiumInterestRate
  ELSE DefaultInterestRate

\* new Loan({...}): paymentHistory and remainingTerm are not paths of the
\* schema, so the (strict) model drops them; creditLimit and loanType are
\* never set by this route
NewLoan(user, body, id, today) ==
  [id |-> id,
   user |-> user,
   loanAmount |-> body.loanAmount,
   loanPurpose |-> body.loanPurpose,
   loanTerm |-> body.loanTerm,
   interestRate |-> RequestedRate(body),
   lenderName |-> IF IsDefined(body.lenderName) THEN body.lenderName[1]
                  ELSE "General Application",
   employmentStatus |-> body.employmentStatus,
   status |-> "Pending",
   repaymentSchedule |-> <<>>,
   createdAt |-> today,
   paymentHistory |-> Undefined,
   remainingTerm |-> Undefined,
   creditLimit |-> Undefined,
   loanType |-> Undefined]

\* const loan = new Loan({...}); loan.generateRepaymentSchedule()
PreparedLoan(user, body, id, today) ==
  LET loan == NewLoan(user, body, id, today)
  IN  [loan EXCEPT
         !.repaymentSchedule = generateRepaymentSchedule(loan, today)]

\* what loan.save() writes: validation is the first pre-save hook, the
\* schema's own pre('save') hook runs after it
SavedLoan(loan) == PreSave(loan)

NoResponse == [code |-> 0, route |-> "none", body |-> [success |-> FALSE]]

\* Loan.find({ user })
FindByUser(user) == SelectSeq(store, LAMBDA loan : loan.user = user)

\* an insert that replaces the collection by the new document
InsertReplacing(collection, document) == <<document>>

\* the insert of a new document into a collection
InsertOne(collection, document) == Append(collection, document)

\* the locals of POST /loans; doc is <<>> when no document was built
Locals(user, body, doc) == <<[user |-> user, body |-> body, doc |-> doc]>>

\* POST /loans
ApplyLoan(user, body) ==
  /\ Len(store) < MaxStore
  /\ IF ~BodyValid(body)
       THEN /\ response' = [code |-> 400, route |-> "apply",
                            body |-> [success |-> FALSE,
                                      message |-> "Validation failed"]]
            /\ built' = Locals(user, body, <<>>)
            /\ UNCHANGED store
     ELSE LET loan == PreparedLoan(user, body, Len(store) + 1, now)
          IN  /\ built' = Locals(user, body, <<loan>>)
              /\ IF SchemaValid(loan)
                   THEN /\ store' = InsertOne(store, SavedLoan(loan))
                        /\ response' =
                             [code |-> 201, route |-> "apply",
                              body |-> [success |-> TRUE,
                                        loan |-> [id |-> loan.id,
                                                  status |-> loan.status,
                                                  loanAmount |-> loan.loanAmount,
                                                  loanPurpose |-> loan.loanPurpose,
                                                  lenderName |-> loan.lenderName]]]
                   ELSE /\ response' = [code |-> 500, route |-> "apply",
                                        body |-> [success |-> FALSE,
                                                  message |-> "Validation failed"]]
                        /\ UNCHANGED store
  /\ found' = <<>>
  /\ UNCHANGED now

\* GET /loans/credit-report, first handler
GetCreditReport1(user) ==
  /\ found' = FindByUser(user)
  /\ response' = [code |-> 200, route |-> "credit-report-1",
                  body |-> CreditReport1(found')]
  /\ built' = <<>>
  /\ UNCHANGED <<store, now>>

\* GET /loans/credit-report, second handler
GetCreditReport2(user) ==
  /\ found' = FindByUser(user)
  /\ response' = [code |-> 200, route |-> "credit-report-2",
                  body |-> CreditReport2(found')]
  /\ built' = <<>>
  /\ UNCHANGED <<store, now>>

\* .sort({ createdAt: -1 }): newest first, ties in stored order
RECURSIVE InsertByCreatedAt(_, _)
InsertByCreatedAt(loan, sorted) ==
  IF sorted = <<>> THEN <<loan>>
  ELSE IF DateLess(Head(sorted).createdAt, loan.createdAt)
    THEN <<loan>> \o sorted
  ELSE <<Head(sorted)>> \o InsertByCreatedAt(loan, Tail(sorted))

RECURSIVE SortNewestFirst(_)
SortNewestFirst(loans) ==
  IF loans = <<>> THEN <<>>
  ELSE InsertByCreatedAt(loans[Len(loans)],
                         SortNewestFirst(SubSeq(loans, 1, Len(loans) - 1)))

\* the enhanced loan of GET /loans/my-loans (first handler)
EnhancedLoan(loan) ==
  LET history == OrEmpty(loan.paymentHistory)
      paidPayments == CountIf(IsPaidObject, history)
      totalPayments == Len(history)
  IN  [id |-> loan.id,
       status |-> loan.status,
       loanAmount |-> loan.loanAmount,
       originalAmount |-> loan.loanAmount,
       paymentHistory |-> history,
       remainingTerm |-> IF OrZero(loan.remainingTerm) /= 0
                           THEN loan.remainingTerm[1]
                           ELSE loan.loanTerm - paidPayments,
       nextPaymentDate |-> NextPendingDueDate(loan),
       paymentPercentage |->
         IF totalPayments > 0
           THEN MathRound(RMul(Rat(paidPayments, totalPayments), RInt(100)))
           ELSE 0,
       loanType |-> IF IsDefined(loan.loanType) THEN loan.loanType[1]
                    ELSE "Term",
       creditLimit |-> OrZero(loan.creditLimit)]

\* GET /loans/my-loans
MyLoans(user) ==
  /\ found' = SortNewestFirst(FindByUser(user))
  /\ response' =
       [code |-> 200, route |-> "my-loans",
        body |-> [success |-> TRUE,
                  count |-> Len(found'),
                  loans |-> [i \in 1..Len(found') |-> EnhancedLoan(found'[i])]]]
  /\ built' = <<>>
  /\ UNCHANGED <<store, now>>

\* the ids GET /loans/:id is tried with; 0 stands for a string that is not
\* an ObjectId
LoanIdInputs == 0..(MaxStore + 1)

\* the detail of a loan, as both GET /loans/:id handlers send it
LoanDetail(loan) ==
  [id |-> loan.id,
   loanAmount |-> loan.loanAmount,
   loanPurpose |-> loan.loanPurpose,
   loanTerm |-> loan.loanTerm,
   interestRate |-> loan.interestRate,
   status |-> loan.status,
   lenderName |-> loan.lenderName,
   monthlyPayment |-> monthlyPayment(loan),
   nextPayment |-> NextPendingDueDate(loan)]

\* a query that matches on the id alone
FindOneById(user, id) == SelectSeq(store, LAMBDA loan : loan.id = id)

\* Loan.findOne({ _id: req.params.id, user: req.user.id }), as the
\* (empty or one-element) sequence of its hits
FindOne(user, id) ==
  SelectSeq(store, LAMBDA loan : loan.id = id /\ loan.user = user)

\* the answer of GET /loans/:id to a well-formed id
LoanResponse(user, id) ==
  LET hits == FindOne(user, id)
  IN  IF hits = <<>>
        THEN [code |-> 404, route |-> "loan",
              body |-> [success |-> FALSE, message |-> "Loan not found"]]
        ELSE [code |-> 200, route |-> "loan",
              body |-> [success |-> TRUE, loan |-> LoanDetail(hits[1])]]

\* GET /loans/:id (first handler)
GetLoan(user, id) ==
  /\ IF id = 0
       THEN response' = [code |-> 400, route |-> "loan",
                         body |-> [success |-> FALSE,
                                   message |-> "Invalid loan ID format"]]
     ELSE response' = LoanResponse(user, id)
  /\ found' = <<>>
  /\ built' = <<>>
  /\ UNCHANGED <<store, now>>

\* GET /loans/:id (second handler): the id is not checked, and a string
\* that is not an ObjectId makes findOne throw a CastError
GetLoan2(user, id) ==
  /\ IF id = 0
       THEN response' = [code |-> 500, route |-> "loan",
                         body |-> [success |-> FALSE,
                                   message |-> "Server error fetching loan details"]]
     ELSE response' = LoanResponse(user, id)
  /\ found' = <<>>
  /\ built' = <<>>
  /\ UNCHANGED <<store, now>>

----------------------------------------------------------------------------
(* The server: loans are applied for and read back *)

\* the days on which the server is observed
ClockDates == {Date(2023, 1, 15), Date(2023, 1, 31), Date(2023, 11, 30)}

\* the Staff collection
Staffs == {"s1"}

\* no request went through the middleware
NoRequest ==
  [token |-> Undefined, params |-> Undefined, user |-> Undefined,
   role |-> "none", next |-> FALSE]

\* no credit report is in flight
NoPending == [phase |-> "idle", user |-> "u1", since |-> 0, loans |-> <<>>]

\* the connection is established
Connected ==
  [readyState |-> 1, attempts |-> 0, timers |-> 0, elapsed |-> 0,
   failures |-> 0]

\* no signup is in flight; the documents of the principals are not looked at
NoAccounts == userDocs = {} /\ staffDocs = {} /\ signups = <<>>

\* the principals exist, nothing is in flight, the database is connected
Quiet ==
  /\ NoAccounts
  /\ users = Users
  /\ staff = Staffs
  /\ request = NoRequest
  /\ inflight = NoPending
  /\ reachable = TRUE
  /\ conn = Connected

Init ==
  /\ store = <<>>
  /\ now \in ClockDates
  /\ found = <<>>
  /\ response = NoResponse
  /\ built = <<>>
  /\ Quiet

Next ==
  \/ /\ \E r \in Requests : ApplyLoan(r.user, r.body)
     /\ UNCHANGED <<authVars, inflight, connVars, acctVars>>
  \/ /\ \E user \in Users : GetCreditReport1(user)
     /\ UNCHANGED <<authVars, inflight, connVars, acctVars>>
  \/ /\ \E user \in Users : GetCreditReport2(user)
     /\ UNCHANGED <<authVars, inflight, connVars, acctVars>>
  \/ /\ \E user \in Users : MyLoans(user)
     /\ UNCHANGED <<authVars, inflight, connVars, acctVars>>
  \/ /\ \E user \in Users, id \in LoanIdInputs : GetLoan(user, id)
     /\ UNCHANGED <<authVars, inflight, connVars, acctVars>>
  \/ /\ \E user \in Users, id \in LoanIdInputs : GetLoan2(user, id)
     /\ UNCHANGED <<authVars, inflight, connVars, acctVars>>

Spec == Init /\ [][Next]_vars

----------------------------------------------------------------------------
(* The scoring runs: the store holds documents that were created by        *)
(* POST /loans and then carried on by the approval and payment-recording   *)
(* workflows (status, payment history, credit line), and the credit        *)
(* report is read from it.                                                 *)

PaidObject == [shape |-> "object", status |-> "paid"]
LateObject == [shape |-> "object", status |-> "late"]
PaidString == [shape |-> "string", status |-> "paid"]

HistoryInputs ==
  {Undefined, Some(<<>>), Some(<<PaidObject>>), Some(<<LateObject>>),
   Some(<<PaidObject, LateObject>>),
   Some(<<PaidObject, PaidObject, LateObject>>), Some(<<PaidString>>)}

ScoreStatuses ==
  {"Pending", "Approved", "Rejected", "Active", "Completed", "Defaulted"}

\* the document POST /loans stores for a default application
ScoreBase ==
  SavedLoan(PreparedLoan("u1",
               [loanAmount |-> 5000, loanPurpose |-> "Home",
                loanTerm |-> 1, interestRate |-> Undefined,
                lenderName |-> Undefined, employmentStatus |-> "employed"],
               1, Date(2023, 1, 15)))

\* what the workflows made of it: a credit line only on Active loans, a
\* second purpose only on Pending and Rejected ones, the other payment
\* histories only on Pending loans of the first purpose
ScoreDocs ==
  {[ScoreBase EXCEPT !.status = st, !.loanPurpose = pu, !.loanType = ty,
                     !.creditLimit = cl, !.paymentHistory = hi] :
     st \in ScoreStatuses, pu \in {"Home", "Car"},
     ty \in {Undefined, Some("Credit")},
     cl \in {Undefined, Some(2000), Some(10000)}, hi \in HistoryInputs}

ScoreSample ==
  {doc \in ScoreDocs :
     /\ IsDefined(doc.loanType) <=> IsDefined(doc.creditLimit)
     /\ IsDefined(doc.loanType) => doc.status = "Active"
     /\ doc.loanPurpose = "Car" =>
          doc.status \in {"Pending", "Rejected"} /\ doc.loanType = Undefined
     /\ doc.status = "Rejected" => doc.loanPurpose = "Car"
     /\ (doc.status /= "Pending" \/ doc.loanPurpose = "Car") =>
          doc.paymentHistory \in
            {Undefined, Some(<<PaidObject, PaidObject, LateObject>>)}}

\* up to MaxLoans such documents, numbered in stored order
InitScore ==
  /\ \E n \in 0..MaxLoans : \E docs \in [1..n -> ScoreSample] :
       store = [i \in 1..n |-> [docs[i] EXCEPT !.id = i]]
  /\ now = Date(2023, 1, 15)
  /\ found = <<>>
  /\ response = NoResponse
  /\ built = <<>>
  /\ Quiet

NextScore ==
  \/ /\ \E user \in Users : GetCreditReport1(user)
     /\ UNCHANGED <<authVars, inflight, connVars, acctVars>>
  \/ /\ \E user \in Users : GetCreditReport2(user)
     /\ UNCHANGED <<authVars, inflight, connVars, acctVars>>

SpecScore == InitScore /\ [][NextScore]_vars

----------------------------------------------------------------------------
(* The routes behind the authenticate middleware.  A token is undefined   *)
(* (no Authorization header) or carries the secret it was signed with,    *)
(* whether it has expired, and its payload: an optional id and a role.    *)

\* process.env.JWT_SECRET
ServerSecret == "JWT_SECRET"

TokenPayloads ==
  [secret : {"JWT_SECRET", "your_jwt_secret"}, expired : BOOLEAN,
   id : {Undefined, Some("u1"), Some("u2"), Some("s1"), Some("u9")},
   role : {"user", "admin"}]

\* the tokens tried: a forged or expired token only in the name of u1
TokenInputs ==
  {Undefined} \cup
  {Some(t) : t \in {p \in TokenPayloads :
                      (p.secret /= ServerSecret \/ p.expired) =>
                        (p.id = Some("u1") /\ p.role = "user")}}

\* jwt.verify(token, process.env.JWT_SECRET) returns the payload
Verifies(token) == token[1].secret = ServerSecret /\ ~token[1].expired

\* a lookup that does not tell the two collections apart
findAnywhere(role, id) ==
  IF id /= Undefined /\ id[1] \in users \cup staff THEN id ELSE Undefined

\* Staff.findById(id) for an admin, User.findById(id) otherwise; null is
\* Undefined
findPrincipal(role, id) ==
  LET collection == IF role = "admin" THEN staff ELSE users
  IN  IF id /= Undefined /\ id[1] \in collection THEN id ELSE Undefined

Unauthorized(message) ==
  [next |-> FALSE, user |-> Undefined, role |-> "none", message |-> message]

\* the middleware: what it attaches to req and whether it calls next()
authenticate(token) ==
  IF token = Undefined
    THEN Unauthorized("No token provided. Authorization denied.")
  ELSE IF ~Verifies(token)
    THEN Unauthorized("Invalid or expired token.")
  ELSE LET user == findPrincipal(token[1].role, token[1].id)
       IN  IF user = Undefined
             THEN Unauthorized("User or Admin not found.")
             ELSE [next |-> TRUE, user |-> user, role |-> token[1].role,
                   message |-> ""]

\* req after the middleware
Req(token, params) ==
  LET outcome == authenticate(token)
  IN  [token |-> token, params |-> params, user |-> outcome.user,
       role |-> outcome.role, next |-> outcome.next]

\* the middleware answers 401 itself and the handler is not run
Deny(token, params) ==
  /\ ~authenticate(token).next
  /\ request' = Req(token, params)
  /\ response' = [code |-> 401, route |-> "authenticate",
                  body |-> [success |-> FALSE,
                            message |-> authenticate(token).message]]
  /\ found' = <<>>
  /\ built' = <<>>
  /\ UNCHANGED <<store, now>>

\* router.post('/', authenticate, [...], handler)
RouteApplyLoan(token, body) ==
  /\ \/ Deny(token, Undefined)
     \/ /\ authenticate(token).next
        /\ request' = Req(token, Undefined)
        /\ ApplyLoan(request'.user[1], body)
  /\ UNCHANGED <<users, staff, inflight, connVars, acctVars>>

\* router.get('/my-loans', authenticate, handler)
RouteMyLoans(token) ==
  /\ \/ Deny(token, Undefined)
     \/ /\ authenticate(token).next
        /\ request' = Req(token, Undefined)
        /\ MyLoans(request'.user[1])
  /\ UNCHANGED <<users, staff, inflight, connVars, acctVars>>

\* router.get('/credit-report', authenticate, handler)
RouteCreditReport(token) ==
  /\ \/ Deny(token, Undefined)
     \/ /\ authenticate(token).next
        /\ request' = Req(token, Undefined)
        /\ GetCreditReport1(request'.user[1])
  /\ UNCHANGED <<users, staff, inflight, connVars, acctVars>>

\* router.get('/:id', authenticate, handler), first and second handler
RouteGetLoan(token, id) ==
  /\ \/ Deny(token, Some(id))
     \/ /\ authenticate(token).next
        /\ request' = Req(token, Some(id))
        /\ GetLoan(request'.user[1], id)
  /\ UNCHANGED <<users, staff, inflight, connVars, acctVars>>

RouteGetLoan2(token, id) ==
  /\ \/ Deny(token, Some(id))
     \/ /\ authenticate(token).next
        /\ request' = Req(token, Some(id))
        /\ GetLoan2(request'.user[1], id)
  /\ UNCHANGED <<users, staff, inflight, connVars, acctVars>>

\* the applications sent through the middleware
AuthBodies ==
  {body \in Bodies :
     /\ body.interestRate = Undefined /\ body.lenderName = Undefined
     /\ body.loanTerm \in {0, 3}
     /\ Invalidity(body) = (IF body.loanTerm = 0 THEN 1 ELSE 0)}

InitAuth ==
  /\ store = <<>>
  /\ now = Date(2023, 1, 15)
  /\ found = <<>>
  /\ response = NoResponse
  /\ built = <<>>
  /\ Quiet

NextAuth ==
  \/ \E token \in TokenInputs, body \in AuthBodies :
       RouteApplyLoan(token, body)
  \/ \E token \in TokenInputs : RouteMyLoans(token)
  \/ \E token \in TokenInputs : RouteCreditReport(token)
  \/ \E token \in TokenInputs, id \in LoanIdInputs : RouteGetLoan(token, id)
  \/ \E token \in TokenInputs, id \in LoanIdInputs : RouteGetLoan2(token, id)

SpecAuth == InitAuth /\ [][NextAuth]_vars

----------------------------------------------------------------------------
(* A credit report racing with applications.  The handler suspends once,  *)
(* at await Loan.find(...); POST /loans writes at its await loan.save().  *)
(* inflight holds the handler's locals: the user, the array the read      *)
(* returned, and (for the properties) the size of the store at the request *)

\* the applications that race with the report
RaceRequests ==
  {r \in Requests :
     /\ r.body.interestRate = Undefined /\ r.body.lenderName = Undefined
     /\ r.body.loanTerm \in {1, 3}
     /\ Invalidity(r.body) = 0}

\* the request arrives and the handler issues Loan.find({ user })
ReportRequest(user) ==
  /\ inflight.phase \in {"idle", "responded"}
  /\ inflight' = [phase |-> "reading", user |-> user, since |-> Len(store),
                  loans |-> <<>>]
  /\ UNCHANGED <<loanVars, authVars, connVars, acctVars>>

\* the database serves the query
ReportRead ==
  /\ inflight.phase = "reading"
  /\ inflight' = [inflight EXCEPT !.phase = "read",
                                  !.loans = FindByUser(inflight.user)]
  /\ UNCHANGED <<loanVars, authVars, connVars, acctVars>>

\* the handler resumes, computes the report and sends it
ReportRespond ==
  /\ inflight.phase = "read"
  /\ inflight' = [inflight EXCEPT !.phase = "responded"]
  /\ found' = inflight.loans
  /\ response' = [code |-> 200, route |-> "credit-report-1",
                  body |-> CreditReport1(inflight.loans)]
  /\ built' = <<>>
  /\ UNCHANGED <<store, now, authVars, connVars, acctVars>>

InitRace ==
  /\ store = <<>>
  /\ now = Date(2023, 1, 15)
  /\ found = <<>>
  /\ response = NoResponse
  /\ built = <<>>
  /\ Quiet

NextRace ==
  \/ /\ \E r \in RaceRequests : ApplyLoan(r.user, r.body)
     /\ UNCHANGED <<authVars, inflight, connVars, acctVars>>
  \/ \E user \in Users : ReportRequest(user)
  \/ ReportRead
  \/ ReportRespond

SpecRace == InitRace /\ [][NextRace]_vars

----------------------------------------------------------------------------
(* The database connection loop of the server: connectWithRetry() is      *)
(* called once at start; conn counts the mongoose.connect calls that are  *)
(* outstanding, the retry timers that are set, the seconds elapsed on the *)
(* timer and the failed attempts so far.                                  *)

RetryDelay == 5       \* setTimeout(connectWithRetry, 5000), in seconds
MaxFailures == 9      \* failures counted; more are counted as this many

\* two timers set for one failure
scheduleRetryTwice(c) ==
  [c EXCEPT !.readyState = 0, !.attempts = @ - 1, !.timers = @ + 2,
            !.elapsed = 0,
            !.failures = IF @ < MaxFailures THEN @ + 1 ELSE @]

\* the catch branch: setTimeout(connectWithRetry, 5000)
scheduleRetry(c) ==
  [c EXCEPT !.readyState = 0, !.attempts = @ - 1, !.timers = @ + 1,
            !.elapsed = 0,
            !.failures = IF @ < MaxFailures THEN @ + 1 ELSE @]

\* connectWithRetry() up to its await: one mongoose.connect call
connectWithRetry(c) == [c EXCEPT !.readyState = 2, !.attempts = @ + 1]

\* the state after the call at the end of the module
Connecting ==
  connectWithRetry([readyState |-> 0, attempts |-> 0, timers |-> 0,
                    elapsed |-> 0, failures |-> 0])

\* mongoose.connect resolves
ConnectResolves ==
  /\ conn.attempts > 0 /\ reachable
  /\ conn' = [conn EXCEPT !.readyState = 1, !.attempts = @ - 1]
  /\ UNCHANGED <<reachable, loanVars, authVars, inflight, acctVars>>

\* mongoose.connect rejects and the catch branch sets the timer
ConnectRejects ==
  /\ conn.attempts > 0 /\ ~reachable
  /\ conn' = scheduleRetry(conn)
  /\ UNCHANGED <<reachable, loanVars, authVars, inflight, acctVars>>

\* a second passes on the retry timer
Tick ==
  /\ conn.timers > 0 /\ conn.elapsed < RetryDelay
  /\ conn' = [conn EXCEPT !.elapsed = @ + 1]
  /\ UNCHANGED <<reachable, loanVars, authVars, inflight, acctVars>>

\* the timer is due and the event loop runs connectWithRetry again
TimerFires ==
  /\ conn.timers > 0 /\ conn.elapsed >= RetryDelay
  /\ conn' = connectWithRetry([conn EXCEPT !.timers = @ - 1])
  /\ UNCHANGED <<reachable, loanVars, authVars, inflight, acctVars>>

\* the database comes up or goes down while the loop is at work
DatabaseChanges ==
  /\ conn.readyState /= 1
  /\ reachable' = ~reachable
  /\ UNCHANGED <<conn, loanVars, authVars, inflight, acctVars>>

InitConn ==
  /\ store = <<>>
  /\ now = Date(2023, 1, 15)
  /\ found = <<>>
  /\ response = NoResponse
  /\ built = <<>>
  /\ users = Users
  /\ staff = Staffs
  /\ request = NoRequest
  /\ inflight = NoPending
  /\ reachable \in BOOLEAN
  /\ conn = Connecting
  /\ NoAccounts

NextConn ==
  \/ ConnectResolves
  \/ ConnectRejects
  \/ Tick
  \/ TimerFires
  \/ DatabaseChanges

\* the event loop runs every continuation and timer that is due, and time
\* passes
SpecConn ==
  /\ InitConn /\ [][NextConn]_vars
  /\ WF_vars(ConnectResolves) /\ WF_vars(ConnectRejects)
  /\ WF_vars(Tick) /\ WF_vars(TimerFires)

----------------------------------------------------------------------------
(* Accounts: the signup and login handlers that issue the tokens.  There   *)
(* are three sets of them: the controller that signs { userId, role }      *)
(* ("authController"), the controller that hashes the password itself      *)
(* ("userController") and the router's own handlers ("authRoutes").  A     *)
(* signup suspends at its findOne and goes on to its save later.           *)

MaxSignups == 2     \* signup requests in flight at once

\* new User(...)._id and new Staff(...)._id come from these
UserIds == Users
StaffIds == {"s1", "s2"}

Emails == {"a@x.ls", "b@x.ls"}
Phones == {"+26650000001", "+26650000002"}
StrongPasswords == {"Passw0rd!", "Secr3t#key"}
PasswordInputs == StrongPasswords \cup {"password"}
UserRoles == {"user", "premium", "admin"}

\* validEmployeeIds of the router and VALID_EMPLOYEE_IDS of the controller
RouterEmployeeIds == {"CM001", "CM002"}
ControllerEmployeeIds == {"901017233", "901017146"}

\* a password value: the text typed and how often bcrypt has hashed it
Plain(text) == [text |-> text, rounds |-> 0]

\* bcrypt.hash(value, salt): the hash of a hash is another string again
bcryptHash(value) == [value EXCEPT !.rounds = @ + 1]

\* bcrypt.compare(password, stored): stored is the hash of the text typed
bcryptCompare(password, stored) == stored = bcryptHash(Plain(password))

\* UserSchema.pre('save') / staffSchema.pre('save'): a new document's
\* password counts as modified, so it is hashed
HashOnSave(document) ==
  [document EXCEPT !.password = bcryptHash(document.password)]

\* the password validators of UserSchema, applied to the value save() is
\* given: eight characters with lower case, upper case, digit and special
\* character (a bcrypt hash string "$2a$10$..." has them)
PasswordAcceptable(value) ==
  value.rounds > 0 \/ value.text \in StrongPasswords

\* UserSchema's validators: the required fields, the role enum, the password
UserSchemaValid(document) ==
  /\ document.profile
  /\ document.phone /= Undefined
  /\ document.role \in UserRoles
  /\ PasswordAcceptable(document.password)

\* a User collection without its unique indexes
NeverDuplicate(document) == FALSE

\* the unique indexes of UserSchema (email, phone)
UserDuplicate(document) ==
  \E d \in userDocs : d.email = document.email \/ d.phone = document.phone

\* the unique indexes of staffSchema (employeeId, email)
StaffDuplicate(document) ==
  \E d \in staffDocs :
    d.email = document.email \/ d.employeeId = document.employeeId

\* jwt.sign({ [field]: id, role }, secret): the verifier reads payload.id
SignToken(field, id, role) ==
  Some([secret |-> ServerSecret, expired |-> FALSE,
        id |-> IF field = "id" THEN Some(id) ELSE Undefined,
        role |-> role])

\* the payload field a set of handlers signs the principal's id under
IdField(handler) == IF handler = "authController" THEN "userId" ELSE "id"

\* the authenticate of paymentRoutes.js: jwt.verify with the literal secret
authenticatePayments(token) ==
  IF token = Undefined
    THEN Unauthorized("Unauthorized")
  ELSE IF token[1].secret /= "your_jwt_secret" \/ token[1].expired
    THEN Unauthorized("Invalid token")
  ELSE [next |-> TRUE, user |-> token[1].id, role |-> token[1].role,
        message |-> ""]

AccountResponse(code, route, handler, token) ==
  [code |-> code, route |-> route,
   body |-> [success |-> code \in {200, 201}, handler |-> handler,
             token |-> token]]

\* an account handler is not behind the middleware; it leaves the loans
\* alone and answers
Answer(answer) ==
  /\ response' = answer
  /\ request' = NoRequest
  /\ UNCHANGED <<store, now, found, built, inflight, connVars>>

\* the signup bodies: name is the name field, profile the fields firstName,
\* lastName, employmentStatus and annualIncome
SignupBodies ==
  [name : BOOLEAN, profile : BOOLEAN, email : Emails,
   phone : {Undefined} \cup {Some(p) : p \in Phones},
   password : PasswordInputs, role : {Undefined, Some("admin")}]

\* the signup requests tried: a body with the fields its handler reads,
\* the first email and phone and the strong password; the router's handler
\* is also sent the second email with either phone, the admin role, the
\* weak password, and a body without its phone
SignupRequests ==
  {r \in [handler : {"authController", "userController", "authRoutes"},
          body : SignupBodies] :
     /\ r.body.name = (r.handler = "authController")
     /\ r.body.profile = (r.handler /= "authController")
     /\ r.body.password \in {"Passw0rd!", "password"}
     /\ r.body.phone = Undefined <=>
          \/ r.handler = "authController"
          \/ /\ r.handler = "authRoutes" /\ r.body.email = "a@x.ls"
             /\ r.body.role = Undefined /\ r.body.password = "Passw0rd!"
             /\ r.body.phone /= Some("+26650000001")
             /\ r.body.phone /= Some("+26650000002")
     /\ r.handler /= "authRoutes" =>
          /\ r.body.email = "a@x.ls" /\ r.body.role = Undefined
          /\ r.body.password = "Passw0rd!"
          /\ r.body.phone \in {Undefined, Some("+26650000001")}
     /\ r.body.email = "a@x.ls" =>
          r.body.phone \in {Undefined, Some("+26650000001")}
     /\ r.body.email /= "a@x.ls" =>
          r.body.role = Undefined /\ r.body.password = "Passw0rd!"
     /\ r.body.role /= Undefined => r.body.password = "Passw0rd!"}

\* the fields the handler requires are there
SignupComplete(handler, body) ==
  IF handler = "authController"
    THEN body.name
    ELSE body.profile /\ body.phone /= Undefined

\* User.findOne({ email }) of authController, and
\* User.findOne({ $or: [{ email }, { phone }] }) of the other two
SignupExisting(handler, body) ==
  {d \in userDocs :
     \/ d.email = body.email
     \/ handler /= "authController" /\ d.phone = body.phone}

\* the code each handler answers an existing user with
SignupExistsCode(handler) == IF handler = "userController" THEN 409 ELSE 400

\* new User({...}): the controllers pass the hash of the password, the
\* router the password; authController passes name, email, password, role
NewUser(handler, body, id) ==
  [id |-> id, email |-> body.email,
   phone |-> IF handler = "authController" THEN Undefined ELSE body.phone,
   profile |-> handler /= "authController" /\ body.profile,
   password |-> IF handler = "authRoutes"
                  THEN Plain(body.password)
                  ELSE bcryptHash(Plain(body.password)),
   role |-> IF body.role = Undefined THEN "user" ELSE body.role[1]]

\* the stored form of a document (phone is an optional value as in the
\* request; a stored one is never undefined)
StoredUser(document) ==
  [id |-> document.id, email |-> document.email, phone |-> document.phone,
   password |-> document.password, role |-> document.role]

\* POST /signup up to its await User.findOne(...): a 400 or 409, or the
\* handler is left waiting for its turn to save
SignupFind(handler, body) ==
  /\ Len(signups) < MaxSignups
  /\ IF ~SignupComplete(handler, body)
       THEN /\ Answer(AccountResponse(400, "signup", handler, Undefined))
            /\ UNCHANGED <<users, staff, acctVars>>
     ELSE IF SignupExisting(handler, body) /= {}
       THEN /\ Answer(AccountResponse(SignupExistsCode(handler), "signup",
                                      handler, Undefined))
            /\ UNCHANGED <<users, staff, acctVars>>
     ELSE /\ signups' = Append(signups,
                               [route |-> "signup", handler |-> handler,
                                body |-> body])
          /\ request' = NoRequest
          /\ UNCHANGED <<loanVars, users, staff, inflight, connVars,
                         userDocs, staffDocs>>

\* the waiting requests without the k-th
Resume(k) == SubSeq(signups, 1, k - 1) \o SubSeq(signups, k + 1, Len(signups))

\* document.save() of a new User: validation, the pre('save') hook, the
\* insert under the unique indexes; the handler then signs the token
SaveUser(handler, document) ==
  IF UserSchemaValid(document) /\ ~UserDuplicate(document)
    THEN /\ userDocs' = userDocs \cup {StoredUser(HashOnSave(document))}
         /\ users' = users \cup {document.id}
         /\ Answer(AccountResponse(201, "signup", handler,
                     SignToken(IdField(handler), document.id,
                               document.role)))
    ELSE /\ Answer(AccountResponse(500, "signup", handler, Undefined))
         /\ UNCHANGED <<users, userDocs>>

\* POST /signup from its findOne on: new User, save, token, 201; an error
\* of save() is caught and answered 500
SignupSave(k) ==
  /\ k \in 1..Len(signups)
  /\ signups[k].route = "signup"
  /\ UserIds \ users /= {}
  /\ LET id == CHOOSE i \in UserIds \ users : TRUE
     IN  SaveUser(signups[k].handler,
                  NewUser(signups[k].handler, signups[k].body, id))
  /\ signups' = Resume(k)
  /\ UNCHANGED <<staff, staffDocs>>

\* the admin signup requests tried: the router's handler is also sent a
\* body without its fullName
AdminRequests ==
  {r \in [handler : {"userController", "authRoutes"},
          body : [fullName : BOOLEAN, email : {"a@x.ls"},
                  password : {"Passw0rd!"},
                  employeeId : {"CM001", "901017233"}]] :
     ~r.body.fullName =>
       r.handler = "authRoutes" /\ r.body.employeeId = "CM001"}

\* the employee ids a handler lets sign up
ValidEmployeeIds(handler) ==
  IF handler = "userController" THEN ControllerEmployeeIds
                                ELSE RouterEmployeeIds

\* new Staff({...}): the controller passes the hash of the password
NewStaff(handler, body, id) ==
  [id |-> id, email |-> body.email, employeeId |-> body.employeeId,
   password |-> IF handler = "authRoutes"
                  THEN Plain(body.password)
                  ELSE bcryptHash(Plain(body.password))]

\* POST /admin/signup up to its await Staff.findOne({ email })
AdminSignupFind(handler, body) ==
  /\ Len(signups) < MaxSignups
  /\ IF ~body.fullName
       THEN /\ Answer(AccountResponse(400, "adminSignup", handler,
                                      Undefined))
            /\ UNCHANGED <<users, staff, acctVars>>
     ELSE IF body.employeeId \notin ValidEmployeeIds(handler)
       THEN /\ Answer(AccountResponse(
                        IF handler = "userController" THEN 403 ELSE 401,
                        "adminSignup", handler, Undefined))
            /\ UNCHANGED <<users, staff, acctVars>>
     ELSE IF \E d \in staffDocs : d.email = body.email
       THEN /\ Answer(AccountResponse(409, "adminSignup", handler,
                                      Undefined))
            /\ UNCHANGED <<users, staff, acctVars>>
     ELSE /\ signups' = Append(signups,
                               [route |-> "adminSignup",
                                handler |-> handler, body |-> body])
          /\ request' = NoRequest
          /\ UNCHANGED <<loanVars, users, staff, inflight, connVars,
                         userDocs, staffDocs>>

\* POST /admin/signup from its findOne on: new Staff, save, token, 201
AdminSignupSave(k) ==
  /\ k \in 1..Len(signups)
  /\ signups[k].route = "adminSignup"
  /\ StaffIds \ staff /= {}
  /\ LET id == CHOOSE i \in StaffIds \ staff : TRUE
         document == NewStaff(signups[k].handler, signups[k].body, id)
     IN  IF ~StaffDuplicate(document)
           THEN /\ staffDocs' = staffDocs \cup {HashOnSave(document)}
                /\ staff' = staff \cup {id}
                /\ Answer(AccountResponse(201, "adminSignup",
                            signups[k].handler,
                            SignToken("id", id, "admin")))
           ELSE /\ Answer(AccountResponse(500, "adminSignup",
                            signups[k].handler, Undefined))
                /\ UNCHANGED <<staff, staffDocs>>
  /\ signups' = Resume(k)
  /\ UNCHANGED <<users, userDocs>>

\* what POST /login answers: 401 unless User.findOne({ email }) finds a
\* user whose stored password bcrypt.compare accepts, else 200 and a token
LoginOutcome(handler, email, password) ==
  LET matches == {d \in userDocs : d.email = email}
  IN  IF matches = {}
        THEN AccountResponse(401, "login", handler, Undefined)
      ELSE LET user == CHOOSE d \in matches : TRUE
           IN  IF ~bcryptCompare(password, user.password)
                 THEN AccountResponse(401, "login", handler, Undefined)
                 ELSE AccountResponse(200, "login", handler,
                        SignToken(IdField(handler), user.id, user.role))

\* what POST /admin/login answers
AdminLoginOutcome(handler, email, password) ==
  LET matches == {d \in staffDocs : d.email = email}
  IN  IF matches = {}
        THEN AccountResponse(401, "adminLogin", handler, Undefined)
      ELSE LET admin == CHOOSE d \in matches : TRUE
           IN  IF ~bcryptCompare(password, admin.password)
                 THEN AccountResponse(401, "adminLogin", handler, Undefined)
                 ELSE AccountResponse(200, "adminLogin", handler,
                        SignToken("id", admin.id, "admin"))

Login(handler, email, password) ==
  /\ Answer(LoginOutcome(handler, email, password))
  /\ UNCHANGED <<users, staff, acctVars>>

AdminLogin(handler, email, password) ==
  /\ Answer(AdminLoginOutcome(handler, email, password))
  /\ UNCHANGED <<users, staff, acctVars>>

\* the last response was a signup or login that issued a token
Issued ==
  /\ response.route \in {"signup", "login", "adminSignup", "adminLogin"}
  /\ response.body.token /= Undefined

\* router.get('/payment-history', authenticate, handler) of
\* paymentRoutes.js, with the token just issued; no Payment is ever stored
GetPaymentHistory ==
  /\ Issued
  /\ LET token == response.body.token
         outcome == authenticatePayments(token)
     IN  /\ request' = [token |-> token, params |-> Undefined,
                        user |-> outcome.user, role |-> outcome.role,
                        next |-> outcome.next]
         /\ response' =
              IF outcome.next
                THEN [code |-> 200, route |-> "paymentHistory",
                      body |-> [success |-> TRUE, message |-> ""]]
                ELSE [code |-> 401, route |-> "authenticatePayments",
                      body |-> [success |-> FALSE,
                                message |-> outcome.message]]
  /\ UNCHANGED <<store, now, found, built, users, staff, inflight, connVars,
                 acctVars>>

\* GET /loans/my-loans with the token just issued
GetMyLoansWithIssued == Issued /\ RouteMyLoans(response.body.token)

InitAccounts ==
  /\ store = <<>>
  /\ now = Date(2023, 1, 15)
  /\ found = <<>>
  /\ response = NoResponse
  /\ built = <<>>
  /\ users = {}
  /\ staff = {}
  /\ request = NoRequest
  /\ inflight = NoPending
  /\ reachable = TRUE
  /\ conn = Connected
  /\ NoAccounts

NextAccounts ==
  \/ \E r \in SignupRequests : SignupFind(r.handler, r.body)
  \/ \E k \in 1..MaxSignups : SignupSave(k)
  \/ \E r \in AdminRequests : AdminSignupFind(r.handler, r.body)
  \/ \E k \in 1..MaxSignups : AdminSignupSave(k)
  \/ \E handler \in {"authController", "userController", "authRoutes"},
        email \in Emails, password \in StrongPasswords :
       Login(handler, email, password)
  \/ \E handler \in {"userController", "authRoutes"},
        password \in StrongPasswords :
       AdminLogin(handler, "a@x.ls", password)
  \/ GetPaymentHistory
  \/ GetMyLoansWithIssued

SpecAccounts == InitAccounts /\ [][NextAccounts]_vars

----------------------------------------------------------------------------
(* Properties *)

IsReport1 == response.route = "credit-report-1"
IsReport2 == response.route = "credit-report-2"
IsReport == IsReport1 \/ IsReport2

\* the loans in another order
Reorder(loans, f) == [i \in 1..Len(loans) |-> loans[f[i]]]
Reorderings(loans) == {Reorder(loans, f) : f \in Permutations(1..Len(loans))}

\* C1: for every non-empty set of loans the creditScore of the report is an
\* integer within [300, 850], in both credit-report handlers.
C1_ScoreWithinRange ==
  (IsReport /\ found /= <<>>) =>
    /\ response.body.creditScore \in 300..850
    /\ calculateCreditScore1(found) \in 300..850
    /\ calculateCreditScore2(found) \in 300..850

\* a report whose score before the clamp lay above 850
C1_Witness ==
  /\ IsReport1 /\ found /= <<>>
  /\ MathRound(RawScore1(found)) > 850
  /\ response.body.creditScore = 850

\* C2: a user without loans gets the sentinel report (score 0, "No Credit
\* History", no accounts, "0%", zero debt, credit and open accounts) and
\* the scoring formula is not run.
C2_SentinelForNoLoans ==
  (IsReport /\ found = <<>>) =>
    /\ response.code = 200
    /\ response.body.creditScore = 0
    /\ response.body.scoreRange = "No Credit History"
    /\ response.body.accounts = <<>>
    /\ response.body.creditUtilization = "0%"
    /\ response.body.totalDebt = 0
    /\ response.body.availableCredit = 0
    /\ response.body.openAccounts = 0
    /\ ~response.body.scored

\* a user without loans reads the report while the store holds another
\* user's loan
C2_Witness ==
  /\ IsReport /\ found = <<>> /\ store /= <<>>
  /\ response.body.scoreRange = "No Credit History"

StatedContribution(status) ==
  CASE status \in {"Paid", "Completed"} -> 5
    [] status = "Active" -> 3
    [] status = "Defaulted" -> -10
    [] status = "Pending" -> 1
    [] OTHER -> 0

StatedStatusFactor(loans) ==
  Rat(Reduce(LAMBDA sum, loan : sum + StatedContribution(loan.status),
             loans, 0),
      Len(loans))

StatedHistoryFactor(loans) ==
  RDiv(Reduce(LAMBDA sum, loan :
                RAdd(sum,
                     LET history == OrEmpty(loan.paymentHistory)
                     IN  Rat(CountIf(IsPaidObject, history),
                             MathMax(Len(history), 1))),
              loans, RInt(0)),
       RInt(Len(loans)))

StatedUtilizationFactor(loans) ==
  LET debt == TotalDebt(loans)
      credit == TotalCredit(loans)
  IN  IF credit > 0 THEN RSub(RInt(1), RMin(Rat(debt, credit), RInt(1)))
      ELSE RInt(1)

StatedMixFactor(loans) ==
  Rat(Cardinality({loans[i].loanPurpose : i \in 1..Len(loans)}), 5)

\* clamp(round(300 + 550 * (0.40 h + 0.20 u + 0.10 m + 0.30 s)), 300, 850)
StatedScore(loans) ==
  LET sum == RAdd(RAdd(RMul(Rat(40, 100), StatedHistoryFactor(loans)),
                       RMul(Rat(20, 100), StatedUtilizationFactor(loans))),
                  RAdd(RMul(Rat(10, 100), StatedMixFactor(loans)),
                       RMul(Rat(30, 100), StatedStatusFactor(loans))))
  IN  MathMin(850, MathMax(300, MathRound(RAdd(RInt(300),
                                               RMul(RInt(550), sum)))))

\* one Active Credit loan of 5000 under a limit of 10000, history
\* [paid, paid, not paid], purpose Home
WorkedExample ==
  <<[ScoreBase EXCEPT !.status = "Active", !.loanType = Some("Credit"),
                      !.creditLimit = Some(10000),
                      !.paymentHistory =
                        Some(<<PaidObject, PaidObject, LateObject>>)]>>

\* C4: for every non-empty loan set the score of the first handler is
\* clamp(round(300 + 550 * (0.40 history + 0.20 utilization + 0.10 mix
\* + 0.30 status))) with the factors as stated, and the worked example
\* scores 850.
C4_ScoreIsStatedFormula ==
  /\ (IsReport1 /\ found /= <<>>) =>
       response.body.creditScore = StatedScore(found)
  /\ calculateCreditScore1(WorkedExample) = 850

\* C5: in the account-status factor a loan contributes +5 when Paid or
\* Completed, +3 when Active, -10 when Defaulted, +1 when Pending and 0
\* otherwise, and the factor is the mean of the contributions.
C5_StatusContributions ==
  (IsReport1 /\ found /= <<>>) =>
    /\ \A i \in 1..Len(found) :
         StatusWeight(found[i].status) = StatedContribution(found[i].status)
    /\ accountStatusValue(found) = StatedStatusFactor(found)

\* C6: a loan whose paymentHistory is empty or absent contributes ratio 0
\* to the payment-history factor, and the factor and the score are numbers
\* for every non-empty loan set.
C6_EmptyHistoryIsZero ==
  (IsReport1 /\ found /= <<>>) =>
    /\ \A i \in 1..Len(found) :
         OrEmpty(found[i].paymentHistory) = <<>> =>
           HistoryRatio1(found[i]) = RInt(0)
    /\ paymentHistoryValue1(found).d >= 1
    /\ RawScore1(found).d >= 1
    /\ response.body.creditScore \in Int

\* a report over a loan without a paymentHistory, a loan with an empty one
C6_Witness ==
  /\ IsReport1 /\ Len(found) = 2
  /\ found[1].paymentHistory = Undefined
  /\ found[2].paymentHistory = Some(<<>>)
  /\ response.body.creditScore \in 300..850

\* C7: in both handlers creditUtilization is "0%" when totalDebt is 0,
\* and round(totalDebt / (totalDebt + availableCredit) * 100) followed by
\* '%' whenever totalDebt + availableCredit is positive.
C7_UtilizationString ==
  (IsReport /\ found /= <<>>) =>
    LET debt == response.body.totalDebt
        available == response.body.availableCredit
    IN  /\ debt = 0 => response.body.creditUtilization = "0%"
        /\ debt + available > 0 =>
             response.body.creditUtilization = Percent(debt, available)

\* C8: the band of a report is Excellent iff score >= 720, Good iff
\* 650 <= score < 720, Fair iff 580 <= score < 650, Poor iff score < 580,
\* and every score in [300, 850] has its band.
StatedBand(score) ==
  CHOOSE band \in {"Excellent", "Good", "Fair", "Poor"} :
    /\ band = "Excellent" <=> score >= 720
    /\ band = "Good" <=> (650 <= score /\ score < 720)
    /\ band = "Fair" <=> (580 <= score /\ score < 650)
    /\ band = "Poor" <=> score < 580

C8_BandOfScore ==
  /\ (IsReport /\ found /= <<>>) =>
       response.body.scoreRange = StatedBand(response.body.creditScore)
  /\ \A score \in 300..850 : scoreRange(score) = StatedBand(score)

\* a report whose score is the lowest Good one
C8_Witness ==
  /\ IsReport /\ found /= <<>>
  /\ response.body.creditScore = 650
  /\ response.body.scoreRange = "Good"

\* C9: every stored loan's repaymentSchedule has exactly loanTerm
\* installments, and no request changes the schedule of a stored loan.
C9_ScheduleLength ==
  /\ [](\A i \in 1..Len(store) :
          Len(store[i].repaymentSchedule) = store[i].loanTerm)
  /\ [][/\ Len(store') >= Len(store)
        /\ \A i \in 1..Len(store) :
             store'[i].repaymentSchedule = store[i].repaymentSchedule]_vars

\* two stored loans of different terms, read back by my-loans
C9_Witness ==
  /\ Len(store) = 2
  /\ store[1].loanTerm = 3 /\ Len(store[1].repaymentSchedule) = 3
  /\ store[2].loanTerm = 1 /\ Len(store[2].repaymentSchedule) = 1
  /\ response.route = "my-loans"

\* C10: the due dates of a schedule are strictly increasing and
\* installment i lies i calendar months after the application date, so
\* consecutive due dates lie in consecutive calendar months.
C10_MonthlyDueDates ==
  \A k \in 1..Len(store) :
    LET schedule == store[k].repaymentSchedule
    IN  \A i \in 1..Len(schedule) :
          /\ MonthIndex(schedule[i].dueDate)
               = MonthIndex(store[k].createdAt) + i
          /\ i > 1 => DateLess(schedule[i - 1].dueDate, schedule[i].dueDate)

\* the payment as the amortization rules state it: the annuity payment
\* for a positive rate and principal / term at rate 0, in both cases a
\* number
StatedPayment(principal, rate, term) ==
  [nan |-> FALSE, principal |-> principal, rate |-> rate, term |-> term]

\* C11: for a loan whose annual rate is 0 the monthlyPayment is
\* loanAmount / loanTerm and the totalRepayment is loanAmount, and no
\* payment or schedule amount is NaN.
C11_ZeroRatePayment ==
  (built /= <<>> /\ built[1].doc /= <<>>) =>
    LET loan == built[1].doc[1]
        stated == StatedPayment(loan.loanAmount, 0, loan.loanTerm)
    IN  loan.interestRate = 0 =>
          /\ monthlyPayment(loan) = stated
          /\ totalRepayment(loan)
               = [nan |-> FALSE, payment |-> stated, times |-> loan.loanTerm]
          /\ \A i \in 1..Len(loan.repaymentSchedule) :
               loan.repaymentSchedule[i].amount = stated

\* the last POST /loans was answered 201
Applied == response.route = "apply" /\ response.code = 201

\* C12: every successful POST /loans persists exactly one new loan, owned
\* by the requesting user, Pending, with the schedule that was generated
\* before the save, and every installment is Pending and has the loan's
\* monthlyPayment as its amount.
C12_ApplyPersistsPendingLoan ==
  /\ [](Applied =>
          LET loan == store[Len(store)]
          IN  /\ loan.user = built[1].user /\ loan.status = "Pending"
              /\ loan.repaymentSchedule
                   = built[1].doc[1].repaymentSchedule
              /\ Len(loan.repaymentSchedule) = loan.loanTerm
              /\ \A i \in 1..Len(loan.repaymentSchedule) :
                   /\ loan.repaymentSchedule[i].status = "Pending"
                   /\ loan.repaymentSchedule[i].amount
                        = monthlyPayment(loan))
  /\ [][Applied' =>
          /\ Len(store') = Len(store) + 1
          /\ SubSeq(store', 1, Len(store)) = store]_vars

\* the malformed and out-of-range inputs: an amount below the minimum, a
\* purpose outside the catalog, a term outside [1, 60]
StatedMalformed(body) ==
  \/ body.loanAmount < 1000
  \/ body.loanPurpose \notin
       {"Home", "Car", "Education", "Business", "Personal", "Medical",
        "Debt Consolidation"}
  \/ body.loanTerm < 1 \/ body.loanTerm > 60

\* C13: a POST /loans with such an input is answered with the validation
\* error before any document is built and its schedule generated, and the
\* store is left as it was.
C13_RejectedBeforeEngine ==
  /\ []((response.route = "apply" /\ StatedMalformed(built[1].body)) =>
          /\ response.code = 400
          /\ response.body.message = "Validation failed"
          /\ built[1].doc = <<>>)
  /\ [][(response'.route = "apply" /\ StatedMalformed(built'[1].body)) =>
          store' = store]_vars

\* a rejected application for a term of 61 months while the store holds a
\* loan
C13_Witness ==
  /\ response.route = "apply" /\ response.code = 400
  /\ built[1].body.loanTerm = 61 /\ built[1].doc = <<>>
  /\ store /= <<>>

\* the stored loan with this id that the user owns, as a set
OwnedLoans(user, id) ==
  {i \in 1..Len(store) : store[i].id = id /\ store[i].user = user}

\* what GET /loans/:id may answer when it does not send the detail
NoDetail(codes) ==
  /\ response.code \in codes
  /\ "loan" \notin DOMAIN response.body

\* C14 as stated: the detail is returned only for a loan that exists and
\* is owned by the requesting principal, and every other request for a
\* loan is answered 404 without any field of a loan.
C14_NotFoundUnlessOwned ==
  (response.route = "loan" /\ request.next) =>
    LET owned == OwnedLoans(request.user[1], request.params[1])
    IN  IF owned /= {}
          THEN /\ response.code = 200
               /\ \E i \in owned : response.body.loan = LoanDetail(store[i])
          ELSE NoDetail({404})

\* C14 (amended): as above for an id that is a well-formed ObjectId; an id
\* that is not is answered 400 by the first handler and 500 by the second,
\* again without any field of a loan.
C14_DetailOnlyForOwner ==
  (response.route = "loan" /\ request.next) =>
    LET id == request.params[1]
        owned == OwnedLoans(request.user[1], id)
    IN  IF owned /= {}
          THEN /\ response.code = 200
               /\ \E i \in owned : response.body.loan = LoanDetail(store[i])
          ELSE NoDetail(IF id = 0 THEN {400, 500} ELSE {404})

\* a principal asks for a stored loan of another principal
C14_Witness ==
  /\ response.route = "loan" /\ request.next
  /\ \E i \in 1..Len(store) :
       /\ store[i].id = request.params[1]
       /\ store[i].user /= request.user[1]
  /\ response.code = 404

\* the installments of a loan that are still Pending
PendingInstallments(loan) ==
  {i \in 1..Len(loan.repaymentSchedule) :
     loan.repaymentSchedule[i].status = "Pending"}

\* C15: every account entry of a credit report shows the loan's balance
\* (loanAmount), its monthly payment (the annuity payment of amount, rate
\* and term, not 0), the due date of the first Pending installment (none
\* when no installment is Pending) and its remaining term.
C15_AccountSummary ==
  (IsReport /\ found /= <<>>) =>
    \A i \in 1..Len(found) :
      LET account == response.body.accounts[i]
          loan == found[i]
          pending == PendingInstallments(loan)
      IN  /\ account.balance = loan.loanAmount
          /\ account.payment = monthlyPayment(loan)
          /\ account.payment /= ZeroAmount
          /\ account.nextPaymentDate =
               (IF pending = {} THEN Undefined
                ELSE Some(loan.repaymentSchedule[
                       CHOOSE k \in pending : \A j \in pending : k <= j
                     ].dueDate))
          /\ account.remainingTerm
               = ToString(Cardinality(pending)) \o " months"

\* the rate of a persisted loan as stated: 6.5 for a Premium lender, 8.5
\* for a Standard (and not Premium) one, otherwise the rate supplied with
\* the application, 8.5 when none is supplied (tenths of a percent)
StatedRate(body) ==
  LET name == IF body.lenderName = Undefined THEN "General Application"
              ELSE body.lenderName[1]
  IN  IF Includes(name, "Premium") THEN 65
      ELSE IF Includes(name, "Standard") THEN 85
      ELSE IF body.interestRate = Undefined THEN 85
      ELSE body.interestRate[1]

LoansAt(user, k) ==
  SelectSeq(SubSeq(store, 1, k), LAMBDA loan : loan.user = user)

\* C17: a credit report that raced with applications is computed from
\* one read: some loan set that the user had stored between the request
\* and the response yields the score, the debt, the available credit, the
\* accounts and openAccounts, and openAccounts is the number of accounts.
C17_SingleSnapshot ==
  (inflight.phase = "responded" /\ IsReport1) =>
    /\ response.body.openAccounts = Len(response.body.accounts)
    /\ \E k \in inflight.since..Len(store) :
         LET loans == LoansAt(inflight.user, k)
         IN  /\ response.body.openAccounts = Len(loans)
             /\ response.body.totalDebt = TotalDebt(loans)
             /\ response.body.availableCredit = availableCredit1(loans)
             /\ response.body.accounts
                  = [i \in 1..Len(loans) |-> Account1(loans[i])]
             /\ response.body.creditScore
                  = (IF loans = <<>> THEN 0 ELSE calculateCreditScore1(loans))

\* a report of one loan, requested before the user's first application
\* and sent after the second
C17_Witness ==
  /\ inflight.phase = "responded" /\ IsReport1
  /\ inflight.since = 0
  /\ response.body.openAccounts = 1
  /\ Len(FindByUser(inflight.user)) = 2

\* the ids of the stored loans
LoanIds(collection) == {collection[i].id : i \in 1..Len(collection)}

\* C18: the credit report, GET /loans/:id and my-loans leave the loan
\* store and the user stores as they are, and no step removes a loan: the
\* set of stored loan ids only grows.
C18_ReadsLeaveStores ==
  [][/\ response'.route \in
          {"credit-report-1", "credit-report-2", "my-loans", "loan"} =>
          (store' = store /\ users' = users /\ staff' = staff)
     /\ LoanIds(store) \subseteq LoanIds(store')
     /\ Len(store') >= Len(store)]_vars

\* a loan is read back from a store of two
C18_Witness ==
  /\ Len(store) = 2
  /\ response.route = "loan" /\ response.code = 200
  /\ response.body.loan.id = 2

\* the token verifies under the server secret and its id names a
\* principal of the collection its role selects
StatedAdmissible(token) ==
  /\ token /= Undefined
  /\ token[1].secret = ServerSecret /\ ~token[1].expired
  /\ token[1].id /= Undefined
  /\ token[1].id[1] \in (IF token[1].role = "admin" THEN staff ELSE users)

\* C19: a request reaches its handler only with such a token, and then
\* req.user and req.role are those of the token and the handler works
\* for that principal; every other request is answered 401 by the
\* middleware, no handler runs and the store is left alone.
C19_AuthenticateGuards ==
  /\ [](request /= NoRequest =>
          IF StatedAdmissible(request.token)
            THEN /\ request.next
                 /\ request.user = request.token[1].id
                 /\ request.role = request.token[1].role
                 /\ response.route /= "authenticate"
                 /\ response.route \in {"credit-report-1", "my-loans"} =>
                      found \in {FindByUser(request.user[1]),
                                 SortNewestFirst(FindByUser(request.user[1]))}
                 /\ response.route = "apply" =>
                      built[1].user = request.user[1]
            ELSE /\ ~request.next
                 /\ request.user = Undefined
                 /\ response.code = 401
                 /\ response.route = "authenticate"
                 /\ found = <<>> /\ built = <<>>)
  /\ [][response'.route = "authenticate" => store' = store]_vars

\* an administrator reads the credit report, and one request earlier a
\* user's loan was stored
C19_Witness ==
  /\ request.next /\ request.role = "admin"
  /\ response.route = "credit-report-1"
  /\ store /= <<>>

\* C20: at most one connection attempt or retry timer is outstanding; a
\* failed attempt sets exactly one timer, and the next attempt starts
\* when its 5 seconds have passed; a set timer always leads to another
\* attempt; and if the database becomes and stays reachable the server
\* gets connected.
C20_RetryUntilConnected ==
  /\ [](conn.attempts + conn.timers <= 1)
  /\ [][/\ (conn.attempts = 1 /\ conn'.attempts = 0
             /\ conn'.readyState /= 1) =>
            (conn'.timers = conn.timers + 1 /\ conn'.elapsed = 0)
        /\ conn'.attempts > conn.attempts =>
            (conn.timers = 1 /\ conn.elapsed = 5
             /\ conn'.timers = 0)]_vars
  /\ (conn.timers > 0) ~> (conn.attempts > 0)
  /\ (<>[]reachable) => <>(conn.readyState = 1)

\* connected at the third attempt
C20_Witness ==
  /\ conn.readyState = 1
  /\ conn.failures = 2
  /\ conn.attempts = 0 /\ conn.timers = 0

\* C21: for every persisted loan, the amount of each installment of its
\* stored repaymentSchedule is the annuity payment of the loan's stored
\* loanAmount, stored interestRate and stored loanTerm: the schedule
\* generated before the save agrees with the rate the lender-tier hook
\* finally stores.
C21_ScheduleMatchesStoredRate ==
  \A k \in 1..Len(store) :
    \A i \in 1..Len(store[k].repaymentSchedule) :
      store[k].repaymentSchedule[i].amount
        = AnnuityPayment(store[k].loanAmount, store[k].interestRate,
                         store[k].loanTerm)

\* C22: a token issued by any successful signup or login handler (user or
\* admin) is accepted by the authentication check of every protected
\* route, the loan routes' and the payment history's: issuer and verifiers
\* use the same secret and the same payload field for the principal's id,
\* and the role in the token selects the store the principal was created
\* in.
C22_IssuedTokenAccepted ==
  Issued =>
    /\ authenticate(response.body.token).next
    /\ authenticatePayments(response.body.token).next

\* the sets of login handlers
LoginHandlers == {"authController", "userController", "authRoutes"}
AdminLoginHandlers == {"userController", "authRoutes"}

\* C23: signup followed by login round-trips, for every signup handler:
\* after a successful signup with email e and password p, a login with
\* (e, p) succeeds with a token and a login with (e, p') for p' /= p is
\* rejected with 401; the stored password is the hash of p applied exactly
\* once.  (Every stored document was created by a successful signup, with
\* the password text its stored value derives from.)
C23_SignupLoginRoundTrip ==
  /\ \A d \in userDocs :
       /\ d.password = bcryptHash(Plain(d.password.text))
       /\ \A handler \in LoginHandlers, p \in PasswordInputs :
            LET outcome == LoginOutcome(handler, d.email, p)
            IN  IF p = d.password.text
                  THEN outcome.code = 200 /\ outcome.body.token /= Undefined
                  ELSE outcome.code = 401 /\ outcome.body.token = Undefined
  /\ \A d \in staffDocs :
       /\ d.password = bcryptHash(Plain(d.password.text))
       /\ \A handler \in AdminLoginHandlers, p \in PasswordInputs :
            LET outcome == AdminLoginOutcome(handler, d.email, p)
            IN  IF p = d.password.text
                  THEN outcome.code = 200 /\ outcome.body.token /= Undefined
                  ELSE outcome.code = 401 /\ outcome.body.token = Undefined

\* C24: under any interleaving of concurrent signup requests no two stored
\* users share an email or a phone: when two signups with the same email
\* (or phone) both get past the existence check, at most one of them
\* creates a user and is answered with a token.
C24_UniqueUsers ==
  /\ [](\A d1 \in userDocs, d2 \in userDocs :
          (d1.email = d2.email \/ d1.phone = d2.phone) => d1 = d2)
  /\ [][(/\ Len(signups') < Len(signups)
         /\ response'.route = "signup" /\ response'.code = 201) =>
          /\ Cardinality(userDocs') = Cardinality(userDocs) + 1
          /\ \A d \in userDocs' \ userDocs :
               \A e \in userDocs : e.email /= d.email /\ e.phone /= d.phone
        ]_vars

\* the second of two racing signups with the same email and phone was
\* refused by the index: the controller's only request was answered 500
\* while the user of the first is stored
C24_Witness ==
  /\ response.route = "signup" /\ response.code = 500
  /\ response.body.handler = "userController"
  /\ \E d \in userDocs : d.email = "a@x.ls"

\* the bands from the lowest to the highest
BandRank(band) ==
  CASE band = "Poor" -> 0
    [] band = "Fair" -> 1
    [] band = "Good" -> 2
    [] band = "Excellent" -> 3

\* the loans with entry i of the payment history of loan k replaced
MarkPaid(loans, k, i, entry) ==
  [loans EXCEPT ![k].paymentHistory = Some([@[1] EXCEPT ![i] = entry])]

\* the payment-history entries of the loans: <<k, i>> is entry i of loan k
HistoryEntries(loans) ==
  {e \in (1..Len(loans)) \X (1..3) :
     e[2] <= Len(OrEmpty(loans[e[1]].paymentHistory))}

\* C25: the score is monotone in the payment history: for every non-empty
\* loan set, changing one payment-history entry of one loan from not paid
\* to paid, all else equal, never lowers the creditScore and never moves
\* the scoreRange to a lower band (in each handler, paid being what that
\* handler counts as paid).
C25_MonotoneInPayments ==
  (IsReport /\ found /= <<>>) =>
    \A e \in HistoryEntries(found) :
      LET entry == found[e[1]].paymentHistory[1][e[2]]
          report1 == CreditReport1(MarkPaid(found, e[1], e[2], PaidObject))
          report2 == CreditReport2(MarkPaid(found, e[1], e[2], PaidString))
      IN  /\ (IsReport1 /\ ~IsPaidObject(entry)) =>
               /\ report1.creditScore >= response.body.creditScore
               /\ BandRank(report1.scoreRange)
                    >= BandRank(response.body.scoreRange)
          /\ (IsReport2 /\ ~IsPaidString(entry)) =>
               /\ report2.creditScore >= response.body.creditScore
               /\ BandRank(report2.scoreRange)
                    >= BandRank(response.body.scoreRange)

\* a report that one more paid entry would lift into a higher band
C25_Witness ==
  /\ IsReport1 /\ found /= <<>>
  /\ \E e \in HistoryEntries(found) :
       LET entry == found[e[1]].paymentHistory[1][e[2]]
           report1 == CreditReport1(MarkPaid(found, e[1], e[2], PaidObject))
       IN  /\ ~IsPaidObject(entry)
           /\ report1.creditScore > response.body.creditScore
           /\ BandRank(report1.scoreRange)
                > BandRank(response.body.scoreRange)
====
